---------------------------- MODULE Spec2Model ----------------------------
(***************************************************************************)
(* Doctor Appointment Assistant (streamlit_app.py).                        *)
(*                                                                         *)
(* The model covers the three tools the agent may call (get_doctors,       *)
(* send_doctor_request, confirm_patient -> save_to_json), the file         *)
(* appointments.json they persist to, and the Streamlit script that owns   *)
(* the chat history and invokes the agent for a pending turn.              *)
(*                                                                         *)
(* Python strings that are built by formatting are modelled as sequences   *)
(* of pieces (literal text and the formatted values), so that "the message *)
(* contains the status code" is a statement about the pieces.  The emoji   *)
(* markers of the source are written in ASCII: "(ok)" for the check mark,  *)
(* "(fail)" for the cross.                                                 *)
(***************************************************************************)
EXTENDS Integers, Sequences, FiniteSets, TLC

VARIABLES
    file,        \* appointments.json on disk
    history,     \* st.session_state.history: sequence of <<user, assistant>>
    pc,          \* where the script is: "idle", "rerun" or "agent"
    inFlight,    \* number of agent invocations that started and did not end
    scriptError, \* an exception left the script run (Streamlit shows it)
    answered,    \* indices of the turns into which a reply has been stored
    lastCall,    \* the most recent tool call: tool, arguments, environment, result
    notified,    \* outcome of send_doctor_request in the current agent invocation
    calls,       \* number of tool calls made so far
    posts        \* number of HTTP POSTs attempted so far

vars == <<file, history, pc, inFlight, scriptError, answered, lastCall,
          notified, calls, posts>>

----------------------------------------------------------------------------
(* Bounds of the model. *)

\* longest chat history explored
MaxTurns == 2

\* number of tool calls explored over the whole session
MaxCalls == 2

----------------------------------------------------------------------------
(* Inputs. *)

\* the doctors of the directory
DoctorNames == {"Dr. Khan", "Dr. Ahmed"}

\* the argument lists (patient_name, doctor_name, date, time) the agent may
\* pass to send_doctor_request and confirm_patient
ToolArgs == {"Ali", "Sara"} \X {"Dr. Khan"} \X {"Monday"} \X {"7:00 PM"}

\* what the user may type into st.chat_input
UserMessages == {"hi", "book"}

\* st.chat_input returns None when nothing was submitted
None == "None"

\* the placeholder assistant message of a pending turn
Placeholder == "thinking..."

\* what Runner.run(...).final_output may be: any string the model produces
Replies == {"Appointment booked successfully.", "thinking..."}

\* HTTP status codes the webhook may answer with
StatusCodes == {200, 201, 500}

\* str(e) of the exceptions requests.post may raise
TransportErrors == {"Connection refused"}

\* what requests.post does: a response with a status code, or an exception
HttpOutcomes ==
    [kind : {"response"}, status_code : StatusCodes, text : {""}]
    \cup [kind : {"exception"}, status_code : {0}, text : TransportErrors]

\* what the file system does to save_to_json: nothing, json.load/open for
\* reading raises, open(file, "w") raises, or the write raises after
\* open(file, "w") has truncated the file
IoFaults == {"none", "read", "open", "write"}

----------------------------------------------------------------------------
(* get_doctors *)

get_doctors ==
    [d \in DoctorNames |->
        IF d = "Dr. Khan"
        THEN [specialty |-> "Dermatologist",
              availability |-> {<<"Monday to Friday", "Morning", "10:00 AM - 2:00 PM">>,
                                <<"Monday to Friday", "Evening", "7:00 PM - 10:00 PM">>}]
        ELSE [specialty |-> "Neurologist",
              availability |-> {<<"Monday to Friday", "Evening", "7:00 PM - 11:00 PM">>,
                                <<"Saturday", "Morning", "10:00 AM - 2:00 PM">>,
                                <<"Saturday", "Evening", "7:00 PM - 11:00 PM">>}]]

----------------------------------------------------------------------------
(* send_doctor_request *)

OkMark == "(ok)"
FailMark == "(fail)"

\* what a tool call does: it returns a value (no exception leaves it)
Returns(value) == [raised |-> FALSE, value |-> value]

\* the try block of send_doctor_request with "response.ok" in place of
\* "response.status_code == 200"
send_doctor_request_AnySuccessStatus(args, http) ==
    IF http.kind = "exception"
    THEN Returns(<<FailMark, " Webhook error: ", http.text>>)
    ELSE IF http.status_code < 400
         THEN Returns(<<OkMark, " Doctor notified via webhook!">>)
         ELSE Returns(<<FailMark, " Doctor notification failed (status code ",
                        ToString(http.status_code), ")">>)

send_doctor_request(args, http) ==
    IF http.kind = "exception"
    THEN Returns(<<FailMark, " Webhook error: ", http.text>>)
    ELSE IF http.status_code = 200
         THEN Returns(<<OkMark, " Doctor notified via webhook!">>)
         ELSE Returns(<<FailMark, " Doctor notification failed (status code ",
                        ToString(http.status_code), ")">>)

----------------------------------------------------------------------------
(* appointments.json and save_to_json *)

\* The file is absent, holds JSON text, or holds text json.load rejects
\* (an empty or partly written file).  JSON text is modelled as the
\* sequence of its objects, each the sequence of its <<key, value>> pairs
\* in the order they are written.
AbsentFile == [kind |-> "absent", objs |-> <<>>]
JsonFile(objs) == [kind |-> "json", objs |-> objs]
GarbageFile == [kind |-> "garbage", objs |-> <<>>]

\* the dict save_to_json builds, with patient and doctor exchanged
Record_FieldsExchanged(patient_name, doctor_name, date, time) ==
    [patient |-> doctor_name, doctor |-> patient_name, date |-> date, time |-> time]

\* record = {"patient": ..., "doctor": ..., "date": ..., "time": ...}
Record(patient_name, doctor_name, date, time) ==
    [patient |-> patient_name, doctor |-> doctor_name, date |-> date, time |-> time]

RecordKeys == <<"patient", "doctor", "date", "time">>

\* json.dump of one dict: its pairs in insertion order
DumpObject(rec) == [i \in 1..Len(RecordKeys) |-> <<RecordKeys[i], rec[RecordKeys[i]]>>]

\* json.dump(data, f, indent=2) of a list of dicts
JsonDump(data) == [i \in 1..Len(data) |-> DumpObject(data[i])]

\* json.load of one object: the dict of its pairs
LoadObject(obj) ==
    [k \in {obj[i][1] : i \in 1..Len(obj)} |->
        obj[CHOOSE i \in 1..Len(obj) :
                /\ obj[i][1] = k
                /\ \A j \in 1..Len(obj) : obj[j][1] = k => j <= i][2]]

\* json.load(open(file)) of a JSON array of objects
JsonLoad(objs) == [i \in 1..Len(objs) |-> LoadObject(objs[i])]

\* the persisted collection as a reader of the file finds it
Stored(f) == IF f.kind = "json" THEN JsonLoad(f.objs) ELSE <<>>

\* the result of save_to_json: the file afterwards and what it printed
Saved(f, printed) == [file |-> f, printed |-> printed]

\* save_to_json writing only the new record, not the records it read
save_to_json_Overwrites(f, record, fault) ==
    IF f.kind # "absent" /\ (fault = "read" \/ f.kind = "garbage")
    THEN Saved(f, <<"JSON save error: ", "read failed">>)
    ELSE IF fault = "open"
         THEN Saved(f, <<"JSON save error: ", "open failed">>)
         ELSE IF fault = "write"
              THEN Saved(GarbageFile, <<"JSON save error: ", "write failed">>)
              ELSE Saved(JsonFile(JsonDump(<<record>>)), <<>>)

save_to_json(f, record, fault) ==
    LET exists == f.kind # "absent"
        \* json.load(open(file)) raises: the file cannot be read or parsed
        readRaises == exists /\ (fault = "read" \/ f.kind = "garbage")
        data == (IF exists THEN JsonLoad(f.objs) ELSE <<>>) \o <<record>>
    IN  IF readRaises
        THEN Saved(f, <<"JSON save error: ", "read failed">>)
        ELSE IF fault = "open"
             \* open(file, "w") raises: nothing was truncated
             THEN Saved(f, <<"JSON save error: ", "open failed">>)
             ELSE IF fault = "write"
                  \* open(file, "w") truncated the file, then the write raised
                  THEN Saved(GarbageFile, <<"JSON save error: ", "write failed">>)
                  ELSE Saved(JsonFile(JsonDump(data)), <<>>)

----------------------------------------------------------------------------
(* confirm_patient *)

\* return "... Patient notified via WhatsApp (via webhook confirmation)."
ConfirmSuccess ==
    Returns(<<OkMark, " Patient notified via WhatsApp (via webhook confirmation).">>)

\* save_to_json catches every exception itself, so the except branch of
\* confirm_patient is never taken and the success string is always returned
confirm_patient(f, args, fault) ==
    LET saved == save_to_json(f, Record(args[1], args[2], args[3], args[4]), fault)
    IN  [file |-> saved.file,
         printed |-> saved.printed,
         outcome |-> ConfirmSuccess]

----------------------------------------------------------------------------
(* The tool calls the agent makes while it runs. *)

NoHttp == [kind |-> "none", status_code |-> 0, text |-> ""]
NoArgs == <<>>

Call(tool, args, http, io, printed, outcome) ==
    [tool |-> tool, args |-> args, http |-> http, io |-> io,
     printed |-> printed, outcome |-> outcome]

NoCall == Call("none", NoArgs, NoHttp, "none", <<>>, Returns(<<>>))

CanCallTool == pc = "agent" /\ calls < MaxCalls

GetDoctors ==
    /\ CanCallTool
    /\ calls' = calls + 1
    /\ lastCall' = Call("get_doctors", NoArgs, NoHttp, "none", <<>>, Returns(get_doctors))
    /\ UNCHANGED <<file, history, pc, inFlight, scriptError, answered, notified, posts>>

SendDoctorRequest ==
    /\ CanCallTool
    /\ \E args \in ToolArgs, http \in HttpOutcomes :
        LET outcome == send_doctor_request(args, http)
        IN  /\ lastCall' = Call("send_doctor_request", args, http, "none", <<>>, outcome)
            /\ notified' = IF ~outcome.raised /\ outcome.value[1] = OkMark
                           THEN "success" ELSE "failure"
    \* requests.post is called once, whatever it answers
    /\ posts' = posts + 1
    /\ calls' = calls + 1
    /\ UNCHANGED <<file, history, pc, inFlight, scriptError, answered>>

\* confirm_patient made contingent on a successful doctor notification
ConfirmPatient_RequiresNotification ==
    /\ CanCallTool
    /\ \E args \in ToolArgs, fault \in IoFaults :
        LET done == confirm_patient(file, args, fault)
        IN  IF notified = "success"
            THEN /\ file' = done.file
                 /\ lastCall' = Call("confirm_patient", args, NoHttp, fault,
                                     done.printed, done.outcome)
            ELSE /\ file' = file
                 /\ lastCall' = Call("confirm_patient", args, NoHttp, fault, <<>>,
                                     Returns(<<FailMark, " Failed to notify patient: ",
                                               "doctor not notified">>))
    /\ calls' = calls + 1
    /\ UNCHANGED <<history, pc, inFlight, scriptError, answered, notified, posts>>

ConfirmPatient ==
    /\ CanCallTool
    /\ \E args \in ToolArgs, fault \in IoFaults :
        LET done == confirm_patient(file, args, fault)
        IN  /\ file' = done.file
            /\ lastCall' = Call("confirm_patient", args, NoHttp, fault,
                                done.printed, done.outcome)
    /\ calls' = calls + 1
    /\ UNCHANGED <<history, pc, inFlight, scriptError, answered, notified, posts>>

----------------------------------------------------------------------------
(* The Streamlit script. *)

Pending(turn) == turn[2] = Placeholder

\* st.session_state.history.append((user_input, "thinking..."))
AppendTurn(h, user_input) == Append(h, <<user_input, Placeholder>>)

\* the store of the reply over the whole last turn, user message included
StoreReply_DropsUserMessage(h, response) ==
    [h EXCEPT ![Len(h)] = <<response, response>>]

\* st.session_state.history[-1] = (last_user_message, response)
StoreReply(h, response) ==
    [h EXCEPT ![Len(h)] = <<h[Len(h)][1], response>>]

\* One run of the script from its first line to the st.rerun() that ends
\* it, to the agent invocation that blocks it, or to its last line.
ScriptRun(user_input) ==
    /\ scriptError' = FALSE
    /\ IF user_input # None
       THEN /\ history' = AppendTurn(history, user_input)
            /\ pc' = "rerun"
            /\ UNCHANGED <<inFlight, notified>>
       ELSE IF history # <<>> /\ Pending(history[Len(history)])
            THEN /\ pc' = "agent"
                 /\ inFlight' = inFlight + 1
                 /\ notified' = "never"
                 /\ UNCHANGED history
            ELSE /\ pc' = "idle"
                 /\ UNCHANGED <<history, inFlight, notified>>
    /\ UNCHANGED <<file, answered, lastCall, calls, posts>>

\* the user submits a message in st.chat_input
UserSubmits ==
    /\ pc = "idle"
    /\ Len(history) < MaxTurns
    /\ \E user_input \in UserMessages : ScriptRun(user_input)

\* the run that st.rerun() starts: st.chat_input returns None in it
StRerun ==
    /\ pc = "rerun"
    /\ ScriptRun(None)

\* a run the user starts without a message (Rerun in the app menu)
MenuRerun ==
    /\ pc = "idle"
    /\ ScriptRun(None)

\* asyncio.run(get_response(...)) returns: the reply is stored, st.rerun()
AgentReturns ==
    /\ pc = "agent"
    /\ \E response \in Replies : history' = StoreReply(history, response)
    /\ answered' = answered \cup {Len(history)}
    /\ inFlight' = inFlight - 1
    /\ pc' = "rerun"
    /\ UNCHANGED <<file, scriptError, lastCall, notified, calls, posts>>

\* Runner.run raises: nothing catches it, the script run ends with the error
AgentRaises ==
    /\ pc = "agent"
    /\ inFlight' = inFlight - 1
    /\ scriptError' = TRUE
    /\ pc' = "idle"
    /\ UNCHANGED <<file, history, answered, lastCall, notified, calls, posts>>

----------------------------------------------------------------------------
(* The specification. *)

\* appointments.json as an earlier session may have left it
InitialFiles ==
    {AbsentFile,
     JsonFile(<<>>),
     JsonFile(<< <<<<"patient", "Omar">>, <<"doctor", "Dr. Ahmed">>,
                   <<"date", "Saturday">>, <<"time", "10:00 AM">>>> >>)}

\* the values the state takes
TypeOK ==
    /\ file.kind \in {"absent", "json", "garbage"}
    /\ file.kind # "json" => file.objs = <<>>
    /\ \A i \in 1..Len(history) :
        /\ history[i][1] \in UserMessages
        /\ history[i][2] \in Replies \cup {Placeholder}
    /\ pc \in {"idle", "rerun", "agent"}
    /\ inFlight = (IF pc = "agent" THEN 1 ELSE 0)
    /\ scriptError \in BOOLEAN
    /\ answered \subseteq 1..Len(history)
    /\ lastCall.tool \in {"none", "get_doctors", "send_doctor_request", "confirm_patient"}
    /\ notified \in {"never", "success", "failure"}
    /\ calls \in 0..MaxCalls
    /\ posts \in 0..calls

Init ==
    /\ file \in InitialFiles
    /\ history = <<>>
    /\ pc = "idle"
    /\ inFlight = 0
    /\ scriptError = FALSE
    /\ answered = {}
    /\ lastCall = NoCall
    /\ notified = "never"
    /\ calls = 0
    /\ posts = 0

Next ==
    \/ UserSubmits
    \/ StRerun
    \/ MenuRerun
    \/ AgentReturns
    \/ AgentRaises
    \/ GetDoctors
    \/ SendDoctorRequest
    \/ ConfirmPatient

Spec == Init /\ [][Next]_vars

----------------------------------------------------------------------------
(* Vocabulary of the properties. *)

\* this step is a call of the tool
IsCall(tool) == calls' = calls + 1 /\ lastCall'.tool = tool

\* the message has the piece in it
Contains(message, piece) == \E i \in 1..Len(message) : message[i] = piece

\* the record a reader expects for the arguments of a call
Expected(args) ==
    [patient |-> args[1], doctor |-> args[2], date |-> args[3], time |-> args[4]]

\* this step appended the record of the call to the persisted collection
Appended == Stored(file') = Append(Stored(file), Expected(lastCall'.args))

\* save_to_json of the last call printed no "JSON save error"
SavedCleanly(call) == call.printed = <<>>

RECURSIVE IsSubsequence(_, _)
\* s is t with some elements left out, the others in the same order
IsSubsequence(s, t) ==
    IF s = <<>> THEN TRUE
    ELSE IF t = <<>> THEN FALSE
    ELSE IF Head(s) = Head(t) THEN IsSubsequence(Tail(s), Tail(t))
    ELSE IsSubsequence(s, Tail(t))

----------------------------------------------------------------------------
(* C1 *)

\* C1: every call of send_doctor_request attempts exactly one HTTP POST and
\* returns a string without raising: status 200 gives the success message,
\* any other status s a failure message that contains s, and an exception
\* of the transport a failure message that contains the exception's text.
C1_SendDoctorRequestOutcome ==
    [][IsCall("send_doctor_request") =>
        LET http == lastCall'.http
            outcome == lastCall'.outcome
        IN  /\ posts' = posts + 1
            /\ ~outcome.raised
            /\ Len(outcome.value) > 0
            /\ (http.kind = "response" /\ http.status_code = 200)
                => outcome.value = <<OkMark, " Doctor notified via webhook!">>
            /\ (http.kind = "response" /\ http.status_code # 200)
                => /\ outcome.value[1] = FailMark
                   /\ Contains(outcome.value, ToString(http.status_code))
            /\ http.kind = "exception"
                => /\ outcome.value[1] = FailMark
                   /\ Contains(outcome.value, http.text)]_vars

\* a call answered with status 500 has returned its failure message
C1_Witness ==
    /\ lastCall.tool = "send_doctor_request"
    /\ lastCall.http.kind = "response"
    /\ lastCall.http.status_code = 500
    /\ lastCall.outcome.value[1] = FailMark
    /\ Contains(lastCall.outcome.value, "500")
    /\ posts = 1

----------------------------------------------------------------------------
(* C2 *)

\* C2 as stated: only confirm_patient changes the persisted collection, and
\* every call of it makes the collection one record longer (so N calls
\* give the initial length + N).
C2_EveryCallAppends ==
    [][/\ file' # file => IsCall("confirm_patient")
       /\ IsCall("confirm_patient")
            => Len(Stored(file')) = Len(Stored(file)) + 1]_vars

\* C2 as amended: only confirm_patient changes the persisted collection; a
\* call whose read and write of the file succeed makes the collection
\* exactly one record longer, and a call whose read or write fails appends
\* nothing.
C2_OnlySuccessfulSaveAppends ==
    [][/\ file' # file => IsCall("confirm_patient")
       /\ (IsCall("get_doctors") \/ IsCall("send_doctor_request")) => file' = file
       /\ (IsCall("confirm_patient") /\ SavedCleanly(lastCall'))
            => Len(Stored(file')) = Len(Stored(file)) + 1
       /\ (IsCall("confirm_patient") /\ ~SavedCleanly(lastCall'))
            => Len(Stored(file')) <= Len(Stored(file))]_vars

\* a second successful save has made a one-record collection two records long
C2_Witness ==
    /\ lastCall.tool = "confirm_patient"
    /\ SavedCleanly(lastCall)
    /\ calls = 1
    /\ Len(Stored(file)) = 2
    /\ Stored(file)[1].patient = "Omar"

----------------------------------------------------------------------------
(* C3 *)

\* C3: records are append-only: whatever step is taken, failing saves
\* included, every record persisted before is persisted after it,
\* unchanged and in the same relative order.
C3_AppendOnly ==
    [][IsSubsequence(Stored(file), Stored(file'))]_vars

----------------------------------------------------------------------------
(* C4 *)

\* C4 as stated: after every call of confirm_patient the last record of the
\* re-read collection has the four arguments as its fields, behind the
\* records of the earlier calls in their order.
C4_LastRecordIsTheCall ==
    [][IsCall("confirm_patient") =>
        LET after == Stored(file')
        IN  /\ Len(after) > 0
            /\ after[Len(after)] = Expected(lastCall'.args)
            /\ SubSeq(after, 1, Len(after) - 1) = Stored(file)]_vars

\* C4 as amended: after a call of confirm_patient whose read and write of
\* the file succeed, the last record of the re-read collection has the four
\* arguments as its fields, behind the earlier records in their order.
C4_RoundTripOfSuccessfulSave ==
    [][(IsCall("confirm_patient") /\ SavedCleanly(lastCall')) =>
        LET after == Stored(file')
        IN  /\ Len(after) > 0
            /\ after[Len(after)] = Expected(lastCall'.args)
            /\ SubSeq(after, 1, Len(after) - 1) = Stored(file)]_vars

\* two successful saves into a new file are re-read in the order of the calls
C4_Witness ==
    /\ lastCall.tool = "confirm_patient"
    /\ SavedCleanly(lastCall)
    /\ lastCall.args[1] = "Sara"
    /\ Stored(file) = <<Expected(<<"Ali", "Dr. Khan", "Monday", "7:00 PM">>),
                        Expected(<<"Sara", "Dr. Khan", "Monday", "7:00 PM">>)>>

----------------------------------------------------------------------------
(* C5 *)

\* C5: confirm_patient never raises, returns its success message when the
\* record was appended, and a failure message when reading or writing the
\* collection failed.
C5_OutcomeReflectsPersistence ==
    [][IsCall("confirm_patient") =>
        /\ ~lastCall'.outcome.raised
        /\ Appended => lastCall'.outcome.value[1] = OkMark
        /\ ~Appended => lastCall'.outcome.value[1] = FailMark]_vars

----------------------------------------------------------------------------
(* C6 *)

\* C6: at most one turn of the history is pending, it is the last one, and
\* at most one agent invocation is in flight.
C6_SinglePendingTurn ==
    /\ inFlight <= 1
    /\ \A i \in 1..Len(history) : Pending(history[i]) => i = Len(history)

----------------------------------------------------------------------------
(* C7 *)

\* C7: a turn that became pending is answered: when the script has come to
\* rest no turn carries the placeholder and no exception has left the agent
\* invocation into the script.
C7_PendingTurnIsAnswered ==
    pc = "idle" =>
        /\ ~scriptError
        /\ \A i \in 1..Len(history) : ~Pending(history[i])

----------------------------------------------------------------------------
(* C8 *)

----------------------------------------------------------------------------
(* C9 *)

\* C9: the history changes only by the append of one pending turn or by
\* the replacement of the assistant message of the last turn; it never gets
\* shorter, and a turn into which a reply was stored never changes again.
C9_HistoryFrame ==
    [][/\ \/ history' = history
          \/ \E u \in UserMessages : history' = Append(history, <<u, Placeholder>>)
          \/ /\ Len(history') = Len(history)
             /\ Len(history) > 0
             /\ \A i \in 1..Len(history) :
                    /\ history'[i][1] = history[i][1]
                    /\ i < Len(history) => history'[i] = history[i]
       /\ Len(history') >= Len(history)
       /\ \A i \in answered : history'[i] = history[i]]_vars

----------------------------------------------------------------------------
(* C10 *)

\* C10: one agent invocation per user input: the agent is never invoked for
\* a turn into which a reply has already been stored, whatever the reply.
C10_OneInvocationPerInput ==
    pc = "agent" => Len(history) \notin answered

=============================================================================
